---- MODULE Spec2Model ----
(***************************************************************************)
(* Model of the desktop shell's main process (src/unnamed/part_000): the   *)
(* window-state store (getWindowState / saveWindowState over a JSON file), *)
(* createWindow with its reachability probe, the whenReady handler, the    *)
(* permission request handler and the application lifecycle handlers.      *)
(*                                                                         *)
(* One action is one event-loop task of the main process.  A promise       *)
(* continuation (the code after an await) is a microtask: it runs before   *)
(* any further host event is delivered, which the guard HostTaskMayRun     *)
(* states.                                                                 *)
(***************************************************************************)
EXTENDS Integers, Sequences, FiniteSets, TLC

VARIABLES
    platform,           \* process.platform: "darwin" or "linux"
    run,                \* number of the current process run (1, 2, ...)
    app,                \* "launching" | "running" | "exited"
    file,               \* content of CONFIG_FILE (a JSON text) or NoFile
    data,               \* what getWindowState last read (line 41), or why not
    windowState,        \* createWindow's local windowState (line 85)
    win,                \* the window the global mainWindow refers to
    pending,            \* createWindow calls suspended at `await isOnline()`
    online,             \* the last settled probe: "unset"|"true"|"false"|"threw"
    readyPc,            \* position of the whenReady handler
    tray,               \* createTray has run
    permissionHandler,  \* setPermissionRequestHandler has run
    activateHandler,    \* app.on("activate") has run
    lastAnswer,         \* the answer given to the last permission request
    reads,              \* calls of getWindowState in this process run
    probes,             \* calls of isOnline in this process run
    lastEvent           \* history: the last resize/move/close event's geometry

vars == <<platform, run, app, file, data, windowState, win, pending, online,
          readyPc, tray, permissionHandler, activateHandler, lastAnswer,
          reads, probes, lastEvent>>

(***************************************************************************)
(* Bounds of the model.                                                    *)
(***************************************************************************)
MaxRuns == 2        \* process runs over the same persisted file
MaxWindows == 2     \* createWindow calls within one process run

(***************************************************************************)
(* Program constants.                                                      *)
(***************************************************************************)
DefaultWidth == 992
DefaultHeight == 600
URL == "https://monkeytype.com/"
OFFLINE_URL == "offline.html"

defaultWindowState ==
    [width |-> DefaultWidth, height |-> DefaultHeight, isMaximized |-> FALSE]

(***************************************************************************)
(* The host's values: the sizes and positions a live window can take, the  *)
(* bounds of a maximized window, the capabilities content can request.     *)
(***************************************************************************)
Sizes == << [width |-> 992, height |-> 600], [width |-> 1280, height |-> 720] >>
Positions == << [x |-> 0, y |-> 25], [x |-> 100, y |-> 50] >>
WorkArea == [x |-> 0, y |-> 25, width |-> 1280, height |-> 720]
Permissions == {"notifications", "geolocation"}

(***************************************************************************)
(* JSON.  A text is a syntax tree: an object text is the sequence of its   *)
(* members <<key, value>> in the order written (a key may repeat).  A      *)
(* value is what JSON.parse builds from it.                                *)
(***************************************************************************)
NoFile == [kind |-> "absent"]
IoError == [kind |-> "ioerror"]
Truncated == [kind |-> "invalid"]

ObjectText(members) == [kind |-> "object", members |-> members]

\* The own enumerable property keys of the elements of a string or an array.
IndexKey == << "0", "1", "2", "3" >>

EmptyProps == [k \in {} |-> 0]

\* JSON.stringify(state, null, 2): the members in the order of the object
\* literal of lines 57-63; a property that is undefined is left out.
StateKeys == << "width", "height", "x", "y", "isMaximized" >>

\* Mutant: the position is left out of the written text.
JSONstringifyWithoutPosition(state) ==
    ObjectText(<< <<"width", state["width"]>>,
                  <<"height", state["height"]>>,
                  <<"isMaximized", state["isMaximized"]>> >>)

JSONstringify(state) ==
    LET present == SelectSeq(StateKeys, LAMBDA k : k \in DOMAIN state)
    IN  ObjectText([i \in 1..Len(present) |-> <<present[i], state[present[i]]>>])

\* The properties of an object text: of a repeated key the last member wins.
MemberProps(members) ==
    LET keys == { members[i][1] : i \in 1..Len(members) }
        last(k) == CHOOSE i \in 1..Len(members) :
                       /\ members[i][1] = k
                       /\ \A j \in (i+1)..Len(members) : members[j][1] # k
    IN  [k \in keys |-> members[last(k)][2]]

\* JSON.parse(data): throws a SyntaxError on a text that is not JSON.
JSONparse(text) ==
    CASE text.kind = "invalid" -> [threw |-> TRUE]
      [] text.kind = "null"    -> [threw |-> FALSE, type |-> "null"]
      [] text.kind = "number"  -> [threw |-> FALSE, type |-> "number", n |-> text.n]
      [] text.kind = "boolean" -> [threw |-> FALSE, type |-> "boolean", b |-> text.b]
      [] text.kind = "string"  -> [threw |-> FALSE, type |-> "string", chars |-> text.chars]
      [] text.kind = "array"   -> [threw |-> FALSE, type |-> "array", items |-> text.items]
      [] text.kind = "object"  ->
            [threw |-> FALSE, type |-> "object", props |-> MemberProps(text.members)]

\* The own enumerable properties `...value` copies in an object literal.
OwnProps(value) ==
    CASE value.type = "object" -> value.props
      [] value.type = "string" ->
            [k \in { IndexKey[i] : i \in 1..Len(value.chars) } |->
                value.chars[CHOOSE i \in 1..Len(value.chars) : IndexKey[i] = k]]
      [] value.type = "array" ->
            [k \in { IndexKey[i] : i \in 1..Len(value.items) } |->
                value.items[CHOOSE i \in 1..Len(value.items) : IndexKey[i] = k]]
      [] OTHER -> EmptyProps

\* Mutant: { ...b, ...a }, the defaults spread last.
ObjectSpreadDefaultsLast(a, b) ==
    [k \in (DOMAIN a) \cup (DOMAIN b) |-> IF k \in DOMAIN a THEN a[k] ELSE b[k]]

\* { ...a, ...b }
ObjectSpread(a, b) ==
    [k \in (DOMAIN a) \cup (DOMAIN b) |-> IF k \in DOMAIN b THEN b[k] ELSE a[k]]

(***************************************************************************)
(* The window-state store.                                                 *)
(***************************************************************************)
\* What lines 40-41 obtain: nothing without a file, the text, or an I/O error.
ReadConfig(f, ioFails) ==
    IF f.kind = "absent" THEN NoFile
    ELSE IF ioFails THEN IoError
    ELSE f

\* getWindowState's result from what was read: the catch block and the
\* missing file both end at `return defaultWindowState`.
getWindowState(d) ==
    IF d.kind \in {"absent", "ioerror"} THEN defaultWindowState
    ELSE LET parsed == JSONparse(d)
         IN  IF parsed.threw THEN defaultWindowState
             ELSE ObjectSpread(defaultWindowState, OwnProps(parsed))

\* Mutant: y is left out of the state.
CapturedStateWithoutY(w) ==
    [width |-> w.bounds.width, height |-> w.bounds.height,
     x |-> w.bounds.x, isMaximized |-> w.isMaximized]

\* The state saveWindowState builds from the live window (lines 54-63).
CapturedState(w) ==
    [width |-> w.bounds.width, height |-> w.bounds.height,
     x |-> w.bounds.x, y |-> w.bounds.y, isMaximized |-> w.isMaximized]

\* The file after saveWindowState: writeFileSync either replaces the content,
\* or throws having changed nothing, or throws after truncating the file.
\* Without a window it returns at once; on a destroyed one isMaximized throws.
saveWindowState(w, f, write) ==
    IF w.status # "alive" THEN f
    ELSE CASE write = "ok"        -> JSONstringify(CapturedState(w))
           [] write = "unchanged" -> f
           [] write = "truncated" -> Truncated

WriteOutcomes == {"ok", "unchanged", "truncated"}

(***************************************************************************)
(* The persisted files a process can start from: none (first launch), a    *)
(* text that is not JSON, JSON that is not an object, partial objects, an  *)
(* object with a foreign field.  The files saveWindowState writes arise    *)
(* from the runs themselves.                                               *)
(***************************************************************************)
InitialFiles ==
    << NoFile,
       Truncated,
       [kind |-> "null"],
       [kind |-> "number", n |-> 7],
       [kind |-> "boolean", b |-> TRUE],
       [kind |-> "string", chars |-> << >>],
       [kind |-> "string", chars |-> <<"a", "b">>],
       [kind |-> "array", items |-> <<1, 2>>],
       ObjectText(<< >>),
       ObjectText(<< <<"isMaximized", TRUE>> >>),
       ObjectText(<< <<"width", 1280>>, <<"height", 720>> >>),
       ObjectText(<< <<"x", 100>> >>),
       ObjectText(<< <<"width", 0>>, <<"height", 720>> >>),
       ObjectText(<< <<"width", 1280>>, <<"height", 720>>, <<"x", 100>>,
                     <<"y", 50>>, <<"isMaximized", TRUE>>, <<"theme", 1>> >>) >>

(***************************************************************************)
(* The window.                                                             *)
(***************************************************************************)
NoWindow ==
    [status |-> "none", bounds |-> WorkArea, isMaximized |-> FALSE,
     visible |-> FALSE, content |-> "none", opts |-> EmptyProps,
     listeners |-> {}, shown |-> FALSE, log |-> << >>]

NoAnswer == [permission |-> "none", granted |-> FALSE, byHandler |-> FALSE]

NoEvent == [kind |-> "none"]

\* Mutant: only the size is passed to the constructor.
WindowOptionsSizeOnly(state) ==
    [k \in (DOMAIN state) \cap {"width", "height"} |-> state[k]]

\* The geometry options createWindow passes to the constructor (lines 88-91):
\* a field the record lacks is passed as undefined, that is, not at all.
WindowOptions(state) ==
    [k \in (DOMAIN state) \cap {"width", "height", "x", "y"} |-> state[k]]

\* Mutant: no listener for move.
SaveEventsWithoutMove == {"resize", "close"}

\* The events createWindow subscribes saveWindowState to (lines 108-110).
SaveEvents == {"resize", "move", "close"}

\* Mutant: activate creates a window whether or not one is open.
NoWindowsOpenUnchecked == TRUE

\* Whether no window is open: BrowserWindow.getAllWindows().length === 0.
NoWindowsOpen == win.status # "alive"

\* Mutant: the handler grants whatever is asked.
PermissionRequestHandlerGrantsAll(permission) == TRUE

\* The permission request handler (lines 222-228).
PermissionRequestHandler(permission) == permission = "notifications"

\* `if (state.key)`: an absent property is undefined, which is falsy.
Truthy(state, key) == key \in DOMAIN state /\ state[key] = TRUE

\* The calls createWindow makes on the host between the constructor and the
\* await (lines 87-114).
CreationLog(state) ==
    <<"BrowserWindow">>
    \o (IF Truthy(state, "isMaximized") THEN <<"maximize">> ELSE << >>)
    \o <<"on", "on", "on", "once">>

\* The window after lines 87-114.  The host sizes the window as asked when
\* the size is positive and places it as asked when both coordinates are
\* given; otherwise the size (size) and the placement (pos) are the host's.
NewWindow(state, size, pos) ==
    LET opts == WindowOptions(state)
        asked == /\ "width" \in DOMAIN opts /\ "height" \in DOMAIN opts
                 /\ opts["width"] > 0 /\ opts["height"] > 0
        placed == "x" \in DOMAIN opts /\ "y" \in DOMAIN opts
        created == [x |-> IF placed THEN opts["x"] ELSE pos.x,
                    y |-> IF placed THEN opts["y"] ELSE pos.y,
                    width |-> IF asked THEN opts["width"] ELSE size.width,
                    height |-> IF asked THEN opts["height"] ELSE size.height]
        log == CreationLog(state)
        maximize == \E i \in 1..Len(log) : log[i] = "maximize"
    IN  [status |-> "alive",
         bounds |-> IF maximize THEN WorkArea ELSE created,
         isMaximized |-> maximize,
         visible |-> FALSE, content |-> "none", opts |-> opts,
         listeners |-> SaveEvents, shown |-> FALSE,
         log |-> log]

\* Host events are event-loop tasks: none is delivered while the whenReady
\* handler's continuation is queued as a microtask.
HostTaskMayRun == app = "running" /\ readyPc # "resumable"

(***************************************************************************)
(* createWindow up to `await isOnline()` (lines 85-116).                   *)
(***************************************************************************)
CreateWindowSync(ioFails, size, pos) ==
    LET d == ReadConfig(file, ioFails)
        state == getWindowState(d)
    IN  /\ data' = d
        /\ windowState' = state
        /\ win' = NewWindow(state, size, pos)
        /\ reads' = reads + 1
        /\ probes' = probes + 1
        /\ pending' = pending + 1

\* app.whenReady() resolves: the handler runs to `await createWindow()`.
AppReady ==
    /\ app = "launching"
    /\ \E ioFails \in BOOLEAN, s \in 1..Len(Sizes), p \in 1..Len(Positions) :
          CreateWindowSync(ioFails, Sizes[s], Positions[p])
    /\ app' = "running"
    /\ readyPc' = "awaiting"
    /\ UNCHANGED <<platform, run, file, online, tray, permissionHandler,
                   activateHandler, lastAnswer, lastEvent>>

Init ==
    /\ platform \in {"darwin", "linux"}
    /\ run = 1
    /\ app = "launching"
    /\ \E i \in 1..Len(InitialFiles) : file = InitialFiles[i]
    /\ data = NoFile
    /\ windowState = defaultWindowState
    /\ win = NoWindow
    /\ pending = 0
    /\ online = "unset"
    /\ readyPc = "idle"
    /\ tray = FALSE
    /\ permissionHandler = FALSE
    /\ activateHandler = FALSE
    /\ lastAnswer = NoAnswer
    /\ reads = 0
    /\ probes = 0
    /\ lastEvent = NoEvent

(***************************************************************************)
(* Window events.  The host changes the window and emits the event; the    *)
(* listener registered for it, if any, runs saveWindowState.               *)
(***************************************************************************)
\* What the host reports of the window at an event (history only).
LiveGeometry(w) ==
    [width |-> w.bounds.width, height |-> w.bounds.height,
     x |-> w.bounds.x, y |-> w.bounds.y, isMaximized |-> w.isMaximized]

\* The event `event` on the window, which the host has brought to w.
Emit(event, w, write) ==
    /\ file' = IF event \in w.listeners THEN saveWindowState(w, file, write)
               ELSE file
    /\ lastEvent' = IF write = "ok"
                    THEN [kind |-> "saved", geometry |-> LiveGeometry(w)]
                    ELSE [kind |-> "failed"]

\* The process ends: nothing of its memory remains.
ProcessExit ==
    /\ app' = "exited"
    /\ data' = NoFile
    /\ windowState' = defaultWindowState
    /\ pending' = 0
    /\ online' = "unset"
    /\ readyPc' = "idle"
    /\ tray' = FALSE
    /\ permissionHandler' = FALSE
    /\ activateHandler' = FALSE
    /\ lastAnswer' = NoAnswer
    /\ reads' = 0
    /\ probes' = 0

\* The user resizes the window (a maximized window is restored first).
Resize ==
    /\ HostTaskMayRun
    /\ win.status = "alive"
    /\ ~win.isMaximized
    /\ \E s \in 1..Len(Sizes), write \in WriteOutcomes :
          LET w == [win EXCEPT !.bounds.width = Sizes[s].width,
                               !.bounds.height = Sizes[s].height]
          IN  /\ win' = w
              /\ Emit("resize", w, write)
    /\ UNCHANGED <<platform, run, app, data, windowState, pending, online,
                   readyPc, tray, permissionHandler, activateHandler,
                   lastAnswer, reads, probes>>

\* The user moves the window.
Move ==
    /\ HostTaskMayRun
    /\ win.status = "alive"
    /\ ~win.isMaximized
    /\ \E p \in 1..Len(Positions), write \in WriteOutcomes :
          LET w == [win EXCEPT !.bounds.x = Positions[p].x,
                               !.bounds.y = Positions[p].y]
          IN  /\ win' = w
              /\ Emit("move", w, write)
    /\ UNCHANGED <<platform, run, app, data, windowState, pending, online,
                   readyPc, tray, permissionHandler, activateHandler,
                   lastAnswer, reads, probes>>

\* The user maximizes the window: the host emits resize.
Maximize ==
    /\ HostTaskMayRun
    /\ win.status = "alive"
    /\ ~win.isMaximized
    /\ \E write \in WriteOutcomes :
          LET w == [win EXCEPT !.bounds = WorkArea, !.isMaximized = TRUE]
          IN  /\ win' = w
              /\ Emit("resize", w, write)
    /\ UNCHANGED <<platform, run, app, data, windowState, pending, online,
                   readyPc, tray, permissionHandler, activateHandler,
                   lastAnswer, reads, probes>>

\* The user restores the window: the host emits resize.
Unmaximize ==
    /\ HostTaskMayRun
    /\ win.status = "alive"
    /\ win.isMaximized
    /\ \E s \in 1..Len(Sizes), p \in 1..Len(Positions), write \in WriteOutcomes :
          LET w == [win EXCEPT !.bounds = [x |-> Positions[p].x,
                                           y |-> Positions[p].y,
                                           width |-> Sizes[s].width,
                                           height |-> Sizes[s].height],
                               !.isMaximized = FALSE]
          IN  /\ win' = w
              /\ Emit("resize", w, write)
    /\ UNCHANGED <<platform, run, app, data, windowState, pending, online,
                   readyPc, tray, permissionHandler, activateHandler,
                   lastAnswer, reads, probes>>

\* The host emits ready-to-show once content has been loaded; the listener
\* of lines 112-114 shows the window.
ReadyToShow ==
    /\ HostTaskMayRun
    /\ win.status = "alive"
    /\ win.content # "none"
    /\ ~win.shown
    /\ win' = [win EXCEPT !.shown = TRUE, !.visible = TRUE]
    /\ UNCHANGED <<platform, run, app, file, data, windowState, pending,
                   online, readyPc, tray, permissionHandler, activateHandler,
                   lastAnswer, reads, probes, lastEvent>>

\* The tray menu's "Show App" (line 133).
ShowApp ==
    /\ HostTaskMayRun
    /\ tray
    /\ win.status = "alive"
    /\ win' = [win EXCEPT !.visible = TRUE]
    /\ UNCHANGED <<platform, run, app, file, data, windowState, pending,
                   online, readyPc, tray, permissionHandler, activateHandler,
                   lastAnswer, reads, probes, lastEvent>>

\* The user closes the visible window: close is emitted, the window is
\* destroyed, and window-all-closed quits unless on darwin (lines 244-246).
CloseWindow ==
    /\ HostTaskMayRun
    /\ win.status = "alive"
    /\ win.visible
    /\ \E write \in WriteOutcomes : Emit("close", win, write)
    /\ IF platform # "darwin"
       THEN /\ ProcessExit
            /\ win' = NoWindow
       ELSE /\ win' = [win EXCEPT !.status = "destroyed", !.visible = FALSE]
            /\ UNCHANGED <<app, data, windowState, pending, online, readyPc,
                           tray, permissionHandler, activateHandler,
                           lastAnswer, reads, probes>>
    /\ UNCHANGED <<platform, run>>

\* The tray menu's "Quit" (line 134): app.quit() closes the window, if one
\* is open, and ends the process.
Quit ==
    /\ HostTaskMayRun
    /\ tray
    /\ IF win.status = "alive"
       THEN \E write \in WriteOutcomes : Emit("close", win, write)
       ELSE UNCHANGED <<file, lastEvent>>
    /\ ProcessExit
    /\ win' = NoWindow
    /\ UNCHANGED <<platform, run>>

(***************************************************************************)
(* The probe settles and createWindow continues (lines 116-122).  The      *)
(* probe's promise resolves to true or false, or rejects; loadURL and      *)
(* loadFile throw on a destroyed window.  createWindow's promise resolves  *)
(* only if the load call returned; if the whenReady handler awaits it, the *)
(* handler continues only then.                                            *)
(***************************************************************************)
ProbeOutcomes == {"true", "false", "threw"}

ContentFor(outcome) == IF outcome = "true" THEN URL ELSE OFFLINE_URL

LoadCall(outcome) == IF outcome = "true" THEN "loadURL" ELSE "loadFile"

ProbeSettle ==
    /\ app = "running"
    /\ readyPc # "resumable"
    /\ pending > 0
    /\ \E outcome \in ProbeOutcomes :
          LET loads == outcome # "threw" /\ win.status = "alive"
          IN  /\ online' = outcome
              /\ win' = IF loads
                        THEN [win EXCEPT !.content = ContentFor(outcome),
                                         !.log = Append(@, LoadCall(outcome))]
                        ELSE win
              /\ readyPc' = IF readyPc = "awaiting"
                            THEN (IF loads THEN "resumable" ELSE "rejected")
                            ELSE readyPc
    /\ pending' = pending - 1
    /\ UNCHANGED <<platform, run, app, file, data, windowState, tray,
                   permissionHandler, activateHandler, lastAnswer, reads,
                   probes, lastEvent>>

\* The whenReady handler after `await createWindow()` (lines 217-241).
WhenReadyResume ==
    /\ app = "running"
    /\ readyPc = "resumable"
    /\ tray' = TRUE
    /\ permissionHandler' = TRUE
    /\ activateHandler' = TRUE
    /\ readyPc' = "done"
    /\ UNCHANGED <<platform, run, app, file, data, windowState, win, pending,
                   online, lastAnswer, reads, probes, lastEvent>>

\* The activate handler (lines 237-241); the host emits activate on darwin.
Activate ==
    /\ HostTaskMayRun
    /\ activateHandler
    /\ platform = "darwin"
    /\ reads < MaxWindows
    /\ IF NoWindowsOpen
       THEN \E ioFails \in BOOLEAN, s \in 1..Len(Sizes), p \in 1..Len(Positions) :
               CreateWindowSync(ioFails, Sizes[s], Positions[p])
       ELSE UNCHANGED <<data, windowState, win, reads, probes, pending>>
    /\ UNCHANGED <<platform, run, app, file, online, readyPc, tray,
                   permissionHandler, activateHandler, lastAnswer, lastEvent>>

\* The window's content requests a capability.  The session answers with the
\* handler when one is set; without one the host grants the request.
PermissionRequest ==
    /\ HostTaskMayRun
    /\ win.status = "alive"
    /\ win.content # "none"
    /\ \E permission \in Permissions :
          lastAnswer' =
             [permission |-> permission,
              granted |-> IF permissionHandler
                          THEN PermissionRequestHandler(permission)
                          ELSE TRUE,
              byHandler |-> permissionHandler]
    /\ UNCHANGED <<platform, run, app, file, data, windowState, win, pending,
                   online, readyPc, tray, permissionHandler, activateHandler,
                   reads, probes, lastEvent>>

\* The user starts the application again: a new process over the same file.
Relaunch ==
    /\ app = "exited"
    /\ run < MaxRuns
    /\ run' = run + 1
    /\ app' = "launching"
    /\ UNCHANGED <<platform, file, data, windowState, win, pending, online,
                   readyPc, tray, permissionHandler, activateHandler,
                   lastAnswer, reads, probes, lastEvent>>

Next ==
    \/ AppReady
    \/ ProbeSettle
    \/ WhenReadyResume
    \/ ReadyToShow
    \/ Resize
    \/ Move
    \/ Maximize
    \/ Unmaximize
    \/ ShowApp
    \/ CloseWindow
    \/ Quit
    \/ Activate
    \/ PermissionRequest
    \/ Relaunch

Spec == Init /\ [][Next]_vars

(***************************************************************************)
(* The host's scheduling: the application becomes ready, a probe settles   *)
(* (is-online times its requests out), a queued continuation runs, and a   *)
(* window with content becomes ready to show.  User input is not fair.     *)
(***************************************************************************)
FairSpec ==
    /\ Init
    /\ [][Next]_vars
    /\ WF_vars(AppReady)
    /\ WF_vars(ProbeSettle)
    /\ WF_vars(WhenReadyResume)
    /\ WF_vars(ReadyToShow)

(***************************************************************************)
(* What the claims speak of.                                               *)
(***************************************************************************)
GeometryFields == {"width", "height", "x", "y", "isMaximized"}

\* A step in which getWindowState runs.
ReadStep == reads' = reads + 1

\* Record r has every geometry field, with the value geometry g gives it.
SameGeometry(r, g) ==
    \A k \in GeometryFields : k \in DOMAIN r /\ r[k] = g[k]

\* The keys an object text gives, and the value it gives a key.
TextKeys(text) == { text.members[i][1] : i \in 1..Len(text.members) }

TextValue(text, k) ==
    text.members[CHOOSE i \in 1..Len(text.members) : text.members[i][1] = k][2]

\* Record r is the default record and nothing else.
ExactlyDefault(r) ==
    /\ DOMAIN r = {"width", "height", "isMaximized"}
    /\ r["width"] = 992
    /\ r["height"] = 600
    /\ r["isMaximized"] = FALSE

(***************************************************************************)
(* C1, as stated.  Round trip: when saveWindowState has written the live   *)
(* window's geometry and the write succeeded, the next getWindowState (no  *)
(* save in between, in the same or a later process run) returns a record   *)
(* whose width, height, x, y and isMaximized are the saved ones.           *)
(***************************************************************************)
C1_RoundTrip ==
    [][ (ReadStep /\ lastEvent.kind = "saved")
            => SameGeometry(windowState', lastEvent.geometry) ]_vars

(***************************************************************************)
(* C1, amended.  The round trip holds whenever the read of the file does   *)
(* not itself fail: a read that throws yields the default record.          *)
(***************************************************************************)
C1_RoundTripWhenRead ==
    [][ (ReadStep /\ lastEvent.kind = "saved" /\ data'.kind # "ioerror")
            => SameGeometry(windowState', lastEvent.geometry) ]_vars

\* A later process run has read back a record that an earlier save wrote.
C1_Witness ==
    /\ run = 2
    /\ reads = 1
    /\ pending = 1
    /\ lastEvent.kind = "saved"
    /\ data.kind = "object"
    /\ Len(data.members) = 5
    /\ SameGeometry(windowState, lastEvent.geometry)
    /\ windowState["width"] = 1280
    /\ windowState["x"] = 100
    /\ windowState["isMaximized"] = FALSE

NotAnObject == {"invalid", "null", "number", "boolean", "string", "array"}

(***************************************************************************)
(* C2.  Malformed-file resilience: when the file read is not JSON, or is   *)
(* JSON but not an object (null, a number, a boolean, a string, an array), *)
(* getWindowState returns exactly the default record: width 992, height    *)
(* 600, isMaximized false, no x, no y and no other field.                  *)
(***************************************************************************)
C2_MalformedYieldsDefault ==
    (reads > 0 /\ data.kind \in NotAnObject) => ExactlyDefault(windowState)

DefaultOf(k, r) ==
    CASE k = "width"       -> k \in DOMAIN r /\ r[k] = 992
      [] k = "height"      -> k \in DOMAIN r /\ r[k] = 600
      [] k = "isMaximized" -> k \in DOMAIN r /\ r[k] = FALSE
      [] OTHER             -> k \notin DOMAIN r

MergedFrom(text, r) ==
    IF text.kind = "absent" THEN ExactlyDefault(r)
    ELSE \A k \in GeometryFields :
            IF k \in TextKeys(text)
            THEN k \in DOMAIN r /\ r[k] = TextValue(text, k)
            ELSE DefaultOf(k, r)

(***************************************************************************)
(* C3, as stated.  Merge on load: for a persisted object holding any       *)
(* subset of the geometry fields, getWindowState returns a record in which *)
(* each field the file gives has the file's value and each field it lacks  *)
(* has its default (width 992, height 600, isMaximized false, no x, no y); *)
(* with no file the result is exactly the default record.                  *)
(***************************************************************************)
C3_MergeOnLoad ==
    [][ (ReadStep /\ file.kind \in {"object", "absent"})
            => MergedFrom(file, windowState') ]_vars

(***************************************************************************)
(* C3, amended.  The merge holds of the object that getWindowState read:   *)
(* when the read of an existing file throws, the result is the default     *)
(* record whatever the file holds.                                         *)
(***************************************************************************)
C3_MergeOfWhatWasRead ==
    (reads > 0 /\ data.kind \in {"object", "absent"})
        => MergedFrom(data, windowState)

\* A file holding only isMaximized = true was read and merged.
C3_Witness ==
    /\ reads > 0
    /\ data.kind = "object"
    /\ TextKeys(data) = {"isMaximized"}
    /\ DOMAIN windowState = {"width", "height", "isMaximized"}
    /\ windowState["width"] = 992
    /\ windowState["height"] = 600
    /\ windowState["isMaximized"] = TRUE

\* A step in which a probe settles and createWindow runs to its end.
SettleStep == pending' = pending - 1 /\ app' = "running"

(***************************************************************************)
(* C4.  Reachability gating: in every run of createWindow, when the probe  *)
(* returns true the window's content source is the remote URL, and when it *)
(* returns false or throws the content source is the local fallback        *)
(* document; the window is never left without a content source.            *)
(***************************************************************************)
C4_ReachabilityGating ==
    [][ SettleStep =>
            /\ online' = "true" => win'.content = URL
            /\ online' \in {"false", "threw"} => win'.content = OFFLINE_URL ]_vars

ShownWithContent ==
    /\ win.status = "alive"
    /\ win.visible
    /\ win.content \in {URL, OFFLINE_URL}

(***************************************************************************)
(* C5.  Always something visible: in every startup, whatever the read of   *)
(* the file and the probe yield, the window eventually is shown with the   *)
(* remote target or the fallback page as its content (unless the user has  *)
(* closed the window or quit before).                                      *)
(***************************************************************************)
C5_AlwaysSomethingVisible ==
    (app = "launching")
        ~> (ShownWithContent \/ win.status = "destroyed" \/ app = "exited")

(***************************************************************************)
(* C6.  Save tracks the live window: after a resize, move or close event   *)
(* whose write succeeded, the persisted record is the window's bounds and  *)
(* maximized flag as they were at that event, and holds exactly the five   *)
(* fields: nothing of an earlier record survives.                          *)
(***************************************************************************)
C6_SaveTracksLiveWindow ==
    lastEvent.kind = "saved" =>
        /\ file.kind = "object"
        /\ Len(file.members) = 5
        /\ TextKeys(file) = GeometryFields
        /\ \A k \in GeometryFields : TextValue(file, k) = lastEvent.geometry[k]

\* A window created from a six-field record of 1280 by 720, maximized, was
\* restored, resized and moved; the file holds its geometry at the move.
C6_Witness ==
    /\ lastEvent.kind = "saved"
    /\ reads > 0
    /\ data.kind = "object"
    /\ Len(data.members) = 6
    /\ windowState["width"] = 1280
    /\ win.status = "alive"
    /\ win.bounds = [x |-> 0, y |-> 25, width |-> 992, height |-> 600]
    /\ ~win.isMaximized
    /\ lastEvent.geometry = LiveGeometry(win)
    /\ Len(file.members) = 5

(***************************************************************************)
(* C7.  Permission gate: every permission request the window's content     *)
(* issues is answered by the handler, which grants "notifications" and     *)
(* denies every other capability.                                          *)
(***************************************************************************)
C7_PermissionGate ==
    lastAnswer.permission # "none" =>
        /\ lastAnswer.byHandler
        /\ lastAnswer.granted <=> (lastAnswer.permission = "notifications")

\* Content loaded after startup asked for geolocation and was denied.
C7_Witness ==
    /\ lastAnswer.permission = "geolocation"
    /\ ~lastAnswer.granted
    /\ win.content = URL
    /\ permissionHandler

ValidRecord(r) ==
    /\ "width" \in DOMAIN r /\ r["width"] > 0
    /\ "height" \in DOMAIN r /\ r["height"] > 0
    /\ "x" \in DOMAIN r <=> "y" \in DOMAIN r

\* The record an object text denotes, read field by field.
TextRecord(text) == [k \in TextKeys(text) |-> TextValue(text, k)]

(***************************************************************************)
(* C8, as stated.  Record invariants: every record saveWindowState writes  *)
(* and every record getWindowState returns has width > 0 and height > 0    *)
(* and has either both x and y or neither.                                 *)
(***************************************************************************)
C8_RecordInvariants ==
    /\ lastEvent.kind = "saved" => ValidRecord(TextRecord(file))
    /\ reads > 0 => ValidRecord(windowState)

WellFormedText(text) ==
    /\ "width" \in TextKeys(text) => TextValue(text, "width") > 0
    /\ "height" \in TextKeys(text) => TextValue(text, "height") > 0
    /\ "x" \in TextKeys(text) <=> "y" \in TextKeys(text)

(***************************************************************************)
(* C8, amended.  Every record saveWindowState writes has width > 0,        *)
(* height > 0 and both x and y.  A record getWindowState returns has       *)
(* width > 0, height > 0 and both or neither of x and y whenever what it   *)
(* read is no object, or is an object that gives no non-positive width or  *)
(* height and gives both or neither of x and y: an object on disk is       *)
(* merged as it is, not validated.                                         *)
(***************************************************************************)
C8_RecordInvariantsOfSavedRecords ==
    /\ lastEvent.kind = "saved" =>
          /\ ValidRecord(TextRecord(file))
          /\ {"x", "y"} \subseteq TextKeys(file)
    /\ (reads > 0 /\ (data.kind # "object" \/ WellFormedText(data)))
          => ValidRecord(windowState)

\* A record written by saveWindowState in one run was loaded in the next.
C8_Witness ==
    /\ run = 2
    /\ reads = 1
    /\ data.kind = "object"
    /\ Len(data.members) = 5
    /\ WellFormedText(data)
    /\ ValidRecord(windowState)
    /\ "x" \in DOMAIN windowState
    /\ lastEvent.kind = "saved"

Calls(log, name) == { i \in 1..Len(log) : log[i] = name }

C9_ConstructedThenMaximized ==
    (reads > 0 /\ win.status # "none") =>
        /\ \A k \in {"width", "height", "x", "y"} :
              /\ k \in DOMAIN win.opts <=> k \in DOMAIN windowState
              /\ k \in DOMAIN win.opts => win.opts[k] = windowState[k]
        /\ Calls(win.log, "BrowserWindow") = {1}
        /\ IF windowState["isMaximized"] = TRUE
           THEN Calls(win.log, "maximize") = {2}
           ELSE Calls(win.log, "maximize") = {}

C10_ReadOnce == reads <= 1 /\ probes <= 1

(***************************************************************************)
(* C10, amended.  The record is read, and the reachability probe started,  *)
(* once per window creation, and only while no window is open: never       *)
(* again during the life of a window.  Off darwin that is at most once in  *)
(* a process; on darwin activate, once the window was closed, creates a    *)
(* window and reads and probes again.                                      *)
(***************************************************************************)
C10_ReadOncePerWindow ==
    /\ [](platform # "darwin" => (reads <= 1 /\ probes <= 1))
    /\ [](reads = probes)
    /\ [][ (reads' > reads \/ probes' > probes) =>
              /\ win.status # "alive"
              /\ win'.status = "alive"
              /\ reads' = reads + 1
              /\ probes' = probes + 1 ]_vars

\* On darwin a second window has been created after the first was closed.
C10_Witness ==
    /\ platform = "darwin"
    /\ reads = 2
    /\ probes = 2
    /\ win.status = "alive"

====
